---- MODULE Spec2Model ----
(***************************************************************************)
(* Temporary identity generator: configuration loading, field generators,  *)
(* mailbox provisioning with retry, inbox polling, batch generation,       *)
(* export and the interactive command loop.                                *)
(*                                                                         *)
(* Strings built by the program are modelled as sequences of tokens, a     *)
(* JSON value as a tagged record, an HTTP request as a nondeterministic    *)
(* outcome, and the secure random source as a stream Rnd(r, i) whose seed  *)
(* r is drawn once per call of generate_identity.                          *)
(***************************************************************************)
EXTENDS Integers, Sequences, FiniteSets, TLC

\* ---------------------------------------------------------------- bounds
MaxRand == 5
MaxBatchRand == 0
MaxCount == 2
MaxPoll == 2
MaxMsgs == 2
MaxFiles == 1

\* ------------------------------------------------------ program constants
retries == 3
TableOrder == <<"first_names", "last_names", "domains", "streets", "addresses", "phone_formats">>
Tables == {TableOrder[i] : i \in 1..Len(TableOrder)}

None == "None"

\* ------------------------------------------------------------ JSON values
\* A value held by a lookup table entry: a list of strings, a string (its
\* items are its characters) or a number.
JList(items) == [kind |-> "list", items |-> items]
JStr(chars) == [kind |-> "str", items |-> chars]
JNum == [kind |-> "num", items |-> <<>>]
\* A top-level JSON document.
JDict(at) == [kind |-> "dict", keys |-> DOMAIN at, at |-> at, items |-> <<>>]
JTopList(items) == [kind |-> "list", keys |-> {}, at |-> <<>>, items |-> items]
JTopNum == [kind |-> "num", keys |-> {}, at |-> <<>>, items |-> <<>>]

Range(s) == {s[i] : i \in DOMAIN s}

\* The i-th draw of the random stream with seed r.
Rnd(r, i) == r + i

\* secrets.choice(seq): seq[randbelow(len(seq))] for a list or a string;
\* it raises on an empty sequence and on a value that is no sequence.
ChoiceRaises(e) == e.kind \notin {"list", "str"} \/ Len(e.items) = 0
Choice(e, r, i) == e.items[(Rnd(r, i) % Len(e.items)) + 1]

\* ------------------------------------------------------ built-in defaults
state_maps == ("US" :> <<"CA", "NY", "TX">>) @@ ("in" :> <<"MH", "DL", "KA">>)

DefaultTable(t) ==
    CASE t = "first_names" ->
           JDict(("male" :> JList(<<"John", "Michael">>))
                 @@ ("female" :> JList(<<"Mary", "Sarah">>))
                 @@ ("neutral" :> JList(<<"Alex", "Taylor">>)))
      [] t = "last_names" -> JDict("US" :> JList(<<"Smith", "Johnson">>))
      [] t = "domains" -> JTopList(<<"example.com", "test.org">>)
      [] t = "streets" ->
           JDict(("US" :> JList(<<"Main St", "Elm St">>))
                 @@ ("in" :> JList(<<"MG Road", "Park Ave">>)))
      [] t = "addresses" ->
           JDict(("CA" :> JList(<<"San Francisco", "Los Angeles">>))
                 @@ ("NY" :> JList(<<"New York", "Albany">>))
                 @@ ("MH" :> JList(<<"Mumbai", "Pune">>)))
      [] t = "phone_formats" ->
           JDict(("US" :> JStr(<<"+", "1", "-", "#", "#", "#", "-", "#", "#", "#",
                                  "-", "#", "#", "#", "#">>))
                 @@ ("in" :> JStr(<<"+", "9", "1", "-", "#", "#", "#", "#", "#",
                                    "-", "#", "#", "#", "#", "#">>)))

\* --------------------------------------------------------------- variables
VARIABLES
    files,      \* config directory: table name -> [status, content]
    tables,     \* the generator's six lookup tables
    warnings,   \* tables for which a "using fallbacks" warning was printed
    spc,        \* position of main(): "start", "prompt", ..., "stopped", "crashed"
    tpc,        \* position of generate_temp_email: "idle", "domains", "account", "token", "sleep", "done"
    attempt,    \* generate_temp_email's loop variable
    sleeps,     \* the time.sleep() durations of the current generate_temp_email call
    temail,     \* the address of the attempt under way
    tresult,    \* generate_temp_email's return value [email, token]
    ipc,        \* position of generate_identity: "idle", "call", "temp", "assemble", "done", "raised"
    iargs,      \* generate_identity's arguments
    ivals,      \* generate_identity's locals [first, last, email, token]
    identity,   \* generate_identity's return value: the dict's items in order
    mailbox,    \* the provider's inbox: the text of each message, in list order
    cpc,        \* position of check_inbox: "idle", "list", "fetch", "sleep", "done"
    cargs,      \* check_inbox's arguments
    cloop,      \* check_inbox's loop state [attempt, msgs, idx]
    cstats,     \* what the current check_inbox call did [lists, sleeps, failed]
    cresult,    \* check_inbox's return value [code, link]
    bpc,        \* position of generate_batch_identities: "idle", "loop", "wait", "save", "done", "raised"
    bargs,      \* generate_batch_identities' arguments
    identities, \* generate_batch_identities' list
    disk,       \* the files written under data/, in order of writing
    cmd,        \* the command line main() is executing
    output,     \* the last message main() printed
    fpc,        \* position of a direct call of a field generator: "idle", "call", "returned", "raised"
    fargs,      \* that call's generator and arguments [fn, country, gender, seed]
    fout        \* that call's return value

\* ------------------------------------------------- configuration loading
Absent == [status |-> "absent", content |-> JTopNum]
BadJson == [status |-> "badjson", content |-> JTopNum]
Present(c) == [status |-> "ok", content |-> c]

\* key in table  (raises TypeError on a number)
InRaises(tb) == tb.kind = "num"
KeyIn(k, tb) ==
    CASE tb.kind = "dict" -> k \in tb.keys
      [] tb.kind = "list" -> k \in Range(tb.items)
      [] OTHER -> FALSE

\* The shape test __init__ applies to table t after assigning it.
ShapeOk(t, c) ==
    CASE t = "first_names" -> \A k \in {"male", "female", "neutral"} : KeyIn(k, c)
      [] t = "domains" -> c.kind = "list"
      [] t = "phone_formats" -> c.kind = "dict" /\ \A k \in c.keys : c.at[k].kind = "str"
      [] OTHER -> c.kind = "dict" /\ \A k \in c.keys : c.at[k].kind = "list"

\* __init__'s single try block, from the i-th open() on: a missing or
\* undecodable file leaves the try block, a decoded file is assigned before
\* it is validated and validation only warns.
RECURSIVE LoadFrom(_, _, _, _)
LoadFrom(fs, i, tb, warned) ==
    IF i > Len(TableOrder)
    THEN [tables |-> tb, warned |-> warned, raised |-> FALSE]
    ELSE LET t == TableOrder[i]
             f == fs[t]
         IN IF f.status # "ok"
            THEN [tables |-> tb, warned |-> warned \cup {t}, raised |-> FALSE]
            ELSE LET tb2 == [tb EXCEPT ![t] = f.content]
                 IN IF t = "first_names" /\ InRaises(f.content)
                    THEN [tables |-> tb2, warned |-> warned, raised |-> TRUE]
                    ELSE LoadFrom(fs, i + 1, tb2,
                                  IF ShapeOk(t, f.content) THEN warned
                                  ELSE warned \cup {t})

Defaults == [t \in Tables |-> DefaultTable(t)]

LoadConfig(fs) == LoadFrom(fs, 1, Defaults, {})

\* -------------------------------------------------------- field generators
\* table.get(k, table[d]): the default table[d] is evaluated before the
\* call, so it raises when d is missing, and .get exists on a dict only.
GetRaises(tb, d) == tb.kind # "dict" \/ d \notin tb.keys
Get(tb, k, d) == IF k \in tb.keys THEN tb.at[k] ELSE tb.at[d]

\* str.lower() on the name tokens of the model.
Lower(s) ==
    CASE s = "John" -> "john" [] s = "Michael" -> "michael"
      [] s = "Mary" -> "mary" [] s = "Sarah" -> "sarah"
      [] s = "Alex" -> "alex" [] s = "Taylor" -> "taylor"
      [] s = "Smith" -> "smith" [] s = "Johnson" -> "johnson"
      [] s = "Anna" -> "anna" [] s = "Rossi" -> "rossi"
      [] s = "Marco" -> "marco" [] s = "Sam" -> "sam"
      [] s = "Brown" -> "brown"
      [] OTHER -> s

Genders == <<"male", "female", "neutral">>

\* gender.lower() on the gender codes of the model.
LowerGender(g) ==
    CASE g = "MALE" -> "male" [] g = "Any" -> "any" [] OTHER -> g

Raised == [raised |-> TRUE, first |-> None, last |-> None]

\* generate_name(gender, country) with random seed r.
generate_name(tb, gender, country, r) ==
    LET g0 == IF gender = "" THEN "any" ELSE LowerGender(gender)
        g == IF g0 = "any" THEN Genders[(Rnd(r, 0) % 3) + 1] ELSE g0
        fn == tb["first_names"]
        ln == tb["last_names"]
    IN IF InRaises(fn) \/ GetRaises(fn, "neutral") THEN Raised
       ELSE LET fkey == IF KeyIn(g, fn) THEN g ELSE "neutral"
                fe == Get(fn, fkey, "neutral")
            IN IF ChoiceRaises(fe) \/ InRaises(ln) \/ GetRaises(ln, "US") THEN Raised
               ELSE LET lkey == IF KeyIn(country, ln) THEN country ELSE "US"
                        le == Get(ln, lkey, "US")
                    IN IF ChoiceRaises(le) THEN Raised
                       ELSE [raised |-> FALSE, first |-> Choice(fe, r, 1),
                             last |-> Choice(le, r, 2)]

\* generate_email(first_name, last_name, country): a token string, or
\* <<>> when secrets.choice(self.domains) raises.
EmailRaises(tb) == ChoiceRaises(tb["domains"])
generate_email(tb, first, last, r) ==
    <<Lower(first), ".", Lower(last), ToString(Rnd(r, 1) % 1000), "@",
      Choice(tb["domains"], r, 0)>>

\* generate_phone(country)
PhoneRaises(tb, country) ==
    \/ GetRaises(tb["phone_formats"], "US")
    \/ Get(tb["phone_formats"], country, "US").kind = "num"
generate_phone(tb, country, r) ==
    LET fmt == Get(tb["phone_formats"], country, "US").items
    IN [i \in 1..Len(fmt) |->
            IF fmt[i] = "#" THEN ToString(Rnd(r, i) % 10) ELSE fmt[i]]

\* generate_address(country): a dict kept as its (key, value) items in
\* insertion order.
AddrCountry(country) == IF country \in DOMAIN state_maps THEN country ELSE "US"
AddrState(country, r) ==
    LET sts == state_maps[AddrCountry(country)]
    IN sts[(Rnd(r, 0) % Len(sts)) + 1]
AddressRaises(tb, country, r) ==
    \/ GetRaises(tb["streets"], "US")
    \/ ChoiceRaises(Get(tb["streets"], AddrCountry(country), "US"))
    \/ GetRaises(tb["addresses"], "CA")
    \/ ChoiceRaises(Get(tb["addresses"], AddrState(country, r), "CA"))
generate_address(tb, country, r) ==
    LET c == AddrCountry(country)
        state == AddrState(country, r)
        street == Choice(Get(tb["streets"], c, "US"), r, 1)
        city == Choice(Get(tb["addresses"], state, "CA"), r, 2)
    IN << [key |-> "street", val |-> <<ToString(Rnd(r, 3) % 1000), " ", street>>],
          [key |-> "city", val |-> <<city>>],
          [key |-> "state", val |-> <<state>>],
          [key |-> "country", val |-> <<c>>] >>

HexDigits == <<"0", "1", "2", "3", "4", "5", "6", "7",
               "8", "9", "a", "b", "c", "d", "e", "f">>

\* generate_username(first_name, last_name): base + token_hex(2)
generate_username(first, last, r) ==
    <<Lower(first), Lower(last)>>
        \o [i \in 1..4 |-> HexDigits[(Rnd(r, i) % 16) + 1]]

CurrentYear == 2026
Pad2(n) == IF n < 10 THEN <<"0", ToString(n)>> ELSE <<ToString(n)>>

\* generate_birthdate(min_age, max_age); randbelow(n) raises for n <= 0.
BirthRaises(min_age, max_age) == (CurrentYear - min_age) - (CurrentYear - max_age) + 1 <= 0
generate_birthdate(min_age, max_age, r) ==
    LET start_year == CurrentYear - max_age
        end_year == CurrentYear - min_age
        year == (Rnd(r, 0) % (end_year - start_year + 1)) + start_year
        month == (Rnd(r, 1) % 12) + 1
        day == (Rnd(r, 2) % 28) + 1
    IN <<ToString(year), "-">> \o Pad2(month) \o <<"-">> \o Pad2(day)

\* generate_password(): 12 characters of a 94-character alphabet, each
\* written as its index in the alphabet.
PasswordLen == 12
PasswordAlphabet == 94
generate_password(r) == [i \in 1..PasswordLen |-> ToString(Rnd(r, i) % PasswordAlphabet)]

\* ------------------------------------------------------- optional values
PNone == [some |-> FALSE, s |-> <<>>]
Some(s) == [some |-> TRUE, s |-> s]
\* Python truthiness of an Optional[str]
Truthy(o) == o.some /\ Len(o.s) > 0

\* The seeds of the random streams explored: one stream per call of
\* generate_identity, fewer of them inside a batch.
Seeds == 0..(IF bpc = "idle" THEN MaxRand ELSE MaxBatchRand)

\* ------------------------------------------------- generate_temp_email
NoMailbox == [email |-> PNone, token |-> PNone]

ProviderDomains == JTopList(<<"mail.tm">>)
\* What the token endpoint can answer with on a 2xx response.
TokenAnswers == {PNone, Some(<<"tokA">>)}

UsernameLen == 10
UsernameAlphabet == 36
\* 10 characters of a 36-character alphabet, each written as its index.
TempUsername(r) == [i \in 1..UsernameLen |-> ToString(Rnd(r, i) % UsernameAlphabet)]

Pow2(n) == IF n = 0 THEN 1 ELSE IF n = 1 THEN 2 ELSE IF n = 2 THEN 4 ELSE 8

BackoffLinear(k) == 2 * k
\* time.sleep(2 ** attempt)
Backoff(k) == Pow2(k)

\* if attempt < retries - 1
SleepsAfter(k) == k < retries - 1

\* if not domains: ... break
BreaksOn(n) == n = 0

TempVars == <<tpc, attempt, sleeps, temail, tresult>>
IdentityVars == <<ipc, iargs, ivals, identity>>
ConfigVars == <<files, tables, warnings>>
InboxVars == <<mailbox, cpc, cargs, cloop, cstats, cresult>>
BatchVars == <<bpc, bargs, identities>>
ShellVars == <<spc, cmd, output>>
FieldVars == <<fpc, fargs, fout>>
\* what generate_identity and generate_temp_email never touch
OutsideIdentity == <<ConfigVars, InboxVars, BatchVars, ShellVars, FieldVars, disk>>

\* The call generate_temp_email(): the loop starts with attempt 0.
TempCall ==
    /\ tpc' = "domains"
    /\ attempt' = 0
    /\ sleeps' = <<>>
    /\ temail' = <<>>
    /\ tresult' = NoMailbox

\* continue: the next iteration, or the end of the loop and
\* return None, None
TempContinue ==
    IF attempt + 1 < retries
    THEN attempt' = attempt + 1 /\ tpc' = "domains" /\ UNCHANGED tresult
    ELSE tpc' = "done" /\ tresult' = NoMailbox /\ UNCHANGED attempt

\* except requests.RequestException: sleep unless this was the last
\* attempt, then continue.
TempOnException ==
    /\ temail' = <<>>
    /\ IF SleepsAfter(attempt)
       THEN tpc' = "sleep" /\ UNCHANGED <<attempt, sleeps, tresult>>
       ELSE TempContinue /\ UNCHANGED sleeps

\* GET /domains
TempListDomains ==
    /\ tpc = "domains"
    /\ \/ TempOnException
       \/ \E n \in 0..1 :
            IF BreaksOn(n)
            THEN /\ tpc' = "done"
                 /\ tresult' = NoMailbox
                 /\ UNCHANGED <<attempt, sleeps, temail>>
            ELSE /\ temail' = TempUsername(Rnd(ivals.seed, 20))
                              \o <<"@", Choice(ProviderDomains, ivals.seed, 20)>>
                 /\ tpc' = "account"
                 /\ UNCHANGED <<attempt, sleeps, tresult>>
    /\ UNCHANGED <<OutsideIdentity, IdentityVars>>

\* POST /accounts
TempCreateAccount ==
    /\ tpc = "account"
    /\ \/ TempOnException
       \/ tpc' = "token" /\ UNCHANGED <<attempt, sleeps, temail, tresult>>
    /\ UNCHANGED <<OutsideIdentity, IdentityVars>>

\* POST /token; token = response.json().get('token'); return email, token
TempGetToken ==
    /\ tpc = "token"
    /\ \/ TempOnException
       \/ \E tok \in TokenAnswers :
            /\ tresult' = [email |-> Some(temail), token |-> tok]
            /\ tpc' = "done"
            /\ UNCHANGED <<attempt, sleeps, temail>>
    /\ UNCHANGED <<OutsideIdentity, IdentityVars>>

\* time.sleep(2 ** attempt); continue
TempSleep ==
    /\ tpc = "sleep"
    /\ sleeps' = Append(sleeps, Backoff(attempt))
    /\ TempContinue
    /\ UNCHANGED <<temail, OutsideIdentity, IdentityVars>>

\* ----------------------------------------------------- generate_identity
FStr(k, v) == [key |-> k, isdict |-> FALSE, val |-> v, sub |-> <<>>]
FDict(k, d) == [key |-> k, isdict |-> TRUE, val |-> <<>>, sub |-> d]

NoVals == [first |-> None, last |-> None, email |-> <<>>, token |-> PNone, seed |-> 0]

Keys(d) == {d[i].key : i \in DOMAIN d}
HasKey(d, k) == k \in Keys(d)
Field(d, k) == d[CHOOSE i \in DOMAIN d : d[i].key = k]

\* first_name, last_name = self.generate_name(gender, country), then the
\* email mode: manual, provisioned (the call of generate_temp_email) or
\* generated from the name.
IdentityBegin ==
    /\ ipc = "call"
    /\ \E r \in Seeds :
         LET n == generate_name(tables, iargs.gender, iargs.country, r)
             r2 == Rnd(r, 5)
             v == [first |-> n.first, last |-> n.last, email |-> <<>>, token |-> PNone,
                   seed |-> r]
         IN IF n.raised
            THEN ipc' = "raised" /\ UNCHANGED <<ivals, TempVars>>
            ELSE IF Truthy(iargs.manual_email)
            THEN /\ ivals' = [v EXCEPT !.email = iargs.manual_email.s]
                 /\ ipc' = "assemble"
                 /\ UNCHANGED TempVars
            ELSE IF iargs.use_temp_email
            THEN ivals' = v /\ ipc' = "temp" /\ TempCall
            ELSE IF EmailRaises(tables)
            THEN ipc' = "raised" /\ ivals' = v /\ UNCHANGED TempVars
            ELSE /\ ivals' = [v EXCEPT !.email = generate_email(tables, n.first, n.last, r2)]
                 /\ ipc' = "assemble"
                 /\ UNCHANGED TempVars
    /\ UNCHANGED <<OutsideIdentity, iargs, identity>>

\* if not email:
FallsBack(email) == ~Truthy(email)

\* email, email_token = self.generate_temp_email() has returned
IdentityAfterTemp ==
    /\ ipc = "temp"
    /\ tpc = "done"
    /\ tpc' = "idle"
    /\ IF FallsBack(tresult.email)
       THEN IF EmailRaises(tables)
            THEN ipc' = "raised" /\ UNCHANGED ivals
            ELSE /\ ivals' = [ivals EXCEPT
                        !.email = generate_email(tables, ivals.first, ivals.last,
                                                 Rnd(ivals.seed, 5)),
                        !.token = PNone]
                 /\ ipc' = "assemble"
       ELSE /\ ivals' = [ivals EXCEPT !.email = tresult.email.s, !.token = tresult.token]
            /\ ipc' = "assemble"
    /\ UNCHANGED <<OutsideIdentity, iargs, identity, attempt, sleeps, temail, tresult>>

\* identity = {...}; if email_token: identity["email_token"] = email_token
MakeIdentity(tb, args, v) ==
    << FStr("first_name", <<v.first>>),
       FStr("last_name", <<v.last>>),
       FStr("full_name", <<v.first, " ", v.last>>),
       FStr("email", v.email),
       FStr("phone", generate_phone(tb, args.country, Rnd(v.seed, 10))),
       FDict("address", generate_address(tb, args.country, Rnd(v.seed, 30))),
       FStr("username", generate_username(v.first, v.last, Rnd(v.seed, 40))),
       FStr("birthdate", generate_birthdate(args.min_age, args.max_age, Rnd(v.seed, 50))),
       FStr("password", generate_password(Rnd(v.seed, 60))),
       FStr("created", <<"now">>) >>
    \o (IF Truthy(v.token) THEN <<FStr("email_token", v.token.s)>> ELSE <<>>)

IdentityAssemble ==
    /\ ipc = "assemble"
    /\ IF \/ PhoneRaises(tables, iargs.country)
          \/ AddressRaises(tables, iargs.country, Rnd(ivals.seed, 30))
          \/ BirthRaises(iargs.min_age, iargs.max_age)
       THEN ipc' = "raised" /\ UNCHANGED identity
       ELSE /\ ipc' = "done"
            /\ identity' = MakeIdentity(tables, iargs, ivals)
    /\ UNCHANGED <<OutsideIdentity, iargs, ivals, TempVars>>

\* ----------------------------------------------------- configuration cases
GoodFile(t) ==
    CASE t = "first_names" ->
           JDict(("male" :> JList(<<"Marco">>)) @@ ("female" :> JList(<<"Anna">>))
                 @@ ("neutral" :> JList(<<"Sam">>)))
      [] t = "last_names" ->
           JDict(("US" :> JList(<<"Brown">>)) @@ ("it" :> JList(<<"Rossi">>)))
      [] t = "domains" -> JTopList(<<"corp.test">>)
      [] t = "streets" ->
           JDict(("US" :> JList(<<"Oak St">>)) @@ ("it" :> JList(<<"Via Roma">>)))
      [] t = "addresses" ->
           JDict(("CA" :> JList(<<"Fresno">>)) @@ ("NY" :> JList(<<"Buffalo">>))
                 @@ ("TX" :> JList(<<"Austin">>)))
      [] t = "phone_formats" -> JDict("US" :> JStr(<<"1", "-", "#">>))

\* A decodable file that fails the shape test of its table.
BadShapeFile(t) ==
    CASE t = "first_names" -> JDict("male" :> JList(<<"Marco">>))
      [] t = "last_names" -> JTopList(<<"Brown">>)
      [] t = "domains" -> JDict("list" :> JList(<<"corp.test">>))
      [] t = "streets" -> JDict("US" :> JNum)
      [] t = "addresses" -> JTopList(<<"Fresno">>)
      [] t = "phone_formats" -> JDict("US" :> JList(<<"1", "-", "#">>))

NoFiles == [t \in Tables |-> Absent]
AllGoodFiles == [t \in Tables |-> Present(GoodFile(t))]
BadDomainsFiles ==
    [NoFiles EXCEPT !["first_names"] = Present(GoodFile("first_names")),
                    !["last_names"] = Present(GoodFile("last_names")),
                    !["domains"] = Present(BadShapeFile("domains"))]
EmptyDomainsFiles == [BadDomainsFiles EXCEPT !["domains"] = Present(JTopList(<<>>))]

ConfigCases == {NoFiles, AllGoodFiles, BadDomainsFiles, EmptyDomainsFiles}

\* ------------------------------------------------------------ check_inbox
\* Message texts are sequences of whitespace-separated words. For each
\* word: what the default code pattern \b\d{6}\b finds in it, and whether
\* the default link pattern https?://[^\s]+ matches it (from its start to
\* the next whitespace).
DefaultCodePattern == "\\b\\d{6}\\b"
DefaultLinkPattern == "https?://[^\\s]+"

\* re.search(pattern, word): the matched text, or PNone. A pattern other
\* than the two defaults is a literal word.
MatchWord(pattern, w) ==
    CASE pattern = DefaultCodePattern ->
           (CASE w \in {"123456", "654321"} -> Some(<<w>>)
              [] w = "https://b.test/999999" -> Some(<<"999999">>)
              [] OTHER -> PNone)
      [] pattern = DefaultLinkPattern ->
           (IF w \in {"http://a.test/x", "https://b.test/999999"} THEN Some(<<w>>) ELSE PNone)
      [] OTHER -> IF w = pattern THEN Some(<<w>>) ELSE PNone

\* re.search(pattern, content): the leftmost match
RECURSIVE Search(_, _)
Search(pattern, content) ==
    IF content = <<>> THEN PNone
    ELSE IF MatchWord(pattern, Head(content)).some
         THEN MatchWord(pattern, Head(content))
         ELSE Search(pattern, Tail(content))

NothingFound == [code |-> PNone, link |-> PNone]

ExamineLinkFirst(content, cp, lp) ==
    IF Search(lp, content).some THEN [code |-> PNone, link |-> Search(lp, content)]
    ELSE IF Search(cp, content).some THEN [code |-> Search(cp, content), link |-> PNone]
    ELSE NothingFound
\* One message of the for loop: the code pattern, then the link pattern.
Examine(content, cp, lp) ==
    IF Search(cp, content).some THEN [code |-> Search(cp, content), link |-> PNone]
    ELSE IF Search(lp, content).some THEN [code |-> PNone, link |-> Search(lp, content)]
    ELSE NothingFound

NoLoop == [attempt |-> 0, msgs |-> <<>>, idx |-> 0]
NoStats == [lists |-> 0, sleeps |-> 0, failed |-> 0]

InboxIdle ==
    /\ cpc = "idle"
    /\ cloop = NoLoop
    /\ cstats = NoStats
    /\ cresult = NothingFound

\* The call check_inbox(...): for attempt in range(poll_attempts)
InboxCall(args) ==
    /\ cargs' = args
    /\ cloop' = NoLoop
    /\ cstats' = NoStats
    /\ cresult' = NothingFound
    /\ cpc' = IF args.poll_attempts > 0 THEN "list" ELSE "done"

OutsideInbox == <<ConfigVars, TempVars, IdentityVars, BatchVars, ShellVars, FieldVars, disk>>

InboxRaise(st) ==
    /\ cpc' = "raised"
    /\ cstats' = st
    /\ UNCHANGED <<cloop, cresult>>
\* except requests.RequestException: logged; the attempt ends at the sleep
InboxOnException(st) ==
    /\ cpc' = "sleep"
    /\ cstats' = [st EXCEPT !.failed = @ + 1]
    /\ UNCHANGED <<cloop, cresult>>

\* GET /messages
InboxList ==
    /\ cpc = "list"
    /\ LET st == [cstats EXCEPT !.lists = @ + 1]
       IN \/ InboxOnException(st)
          \/ /\ cloop' = [cloop EXCEPT !.msgs = mailbox, !.idx = 1]
             /\ cpc' = IF mailbox = <<>> THEN "sleep" ELSE "fetch"
             /\ cstats' = st
             /\ UNCHANGED cresult
    /\ UNCHANGED <<mailbox, cargs, OutsideInbox>>

\* GET /messages/{id} for the message at idx, then the two searches
InboxFetch ==
    /\ cpc = "fetch"
    /\ \/ InboxOnException(cstats)
       \/ LET r == Examine(cloop.msgs[cloop.idx], cargs.code_pattern, cargs.link_pattern)
          IN /\ UNCHANGED cstats
             /\ IF r # NothingFound
                THEN cresult' = r /\ cpc' = "done" /\ UNCHANGED cloop
                ELSE /\ UNCHANGED cresult
                     /\ IF cloop.idx < Len(cloop.msgs)
                        THEN cloop' = [cloop EXCEPT !.idx = @ + 1] /\ cpc' = "fetch"
                        ELSE cpc' = "sleep" /\ UNCHANGED cloop
    /\ UNCHANGED <<mailbox, cargs, OutsideInbox>>

InboxSleepBetweenOnly ==
    /\ cpc = "sleep"
    /\ IF cloop.attempt + 1 < cargs.poll_attempts
       THEN /\ cstats' = [cstats EXCEPT !.sleeps = @ + 1]
            /\ cloop' = [cloop EXCEPT !.attempt = @ + 1]
            /\ cpc' = "list"
            /\ UNCHANGED cresult
       ELSE cpc' = "done" /\ cresult' = NothingFound /\ UNCHANGED <<cloop, cstats>>
    /\ UNCHANGED <<mailbox, cargs, OutsideInbox>>

\* time.sleep(poll_interval), then the next attempt or return None, None
InboxSleep ==
    /\ cpc = "sleep"
    /\ cstats' = [cstats EXCEPT !.sleeps = @ + 1]
    /\ IF cloop.attempt + 1 < cargs.poll_attempts
       THEN cloop' = [cloop EXCEPT !.attempt = @ + 1] /\ cpc' = "list" /\ UNCHANGED cresult
       ELSE cpc' = "done" /\ cresult' = NothingFound /\ UNCHANGED cloop
    /\ UNCHANGED <<mailbox, cargs, OutsideInbox>>

\* The message texts of the model.
Mailboxes ==
    LET Bodies ==
          { <<>>, <<"hello">>, <<"12345">>, <<"code", "123456">>,
            <<"visit", "http://a.test/x">>, <<"123456", "http://a.test/x">>,
            <<"http://a.test/x", "654321">>, <<"https://b.test/999999">> }
    IN UNION {[1..n -> Bodies] : n \in 0..MaxMsgs}

InboxArgs ==
    [token : {<<"tokA">>}, code_pattern : {DefaultCodePattern, "hello"},
     link_pattern : {DefaultLinkPattern}, poll_attempts : 0..MaxPoll,
     poll_interval : {0, 2}]

\* ----------------------------------------------------------- save_identity
FlatKeyBare(key, subkey) == subkey
\* f"{key}_{subkey}"
FlatKey(key, subkey) ==
    CASE key = "address" /\ subkey = "street" -> "address_street"
      [] key = "address" /\ subkey = "city" -> "address_city"
      [] key = "address" /\ subkey = "state" -> "address_state"
      [] key = "address" /\ subkey = "country" -> "address_country"
      [] OTHER -> subkey

\* The flat_identity of one identity: (key, value) items in order.
RECURSIVE Flatten(_)
Flatten(d) ==
    IF d = <<>> THEN <<>>
    ELSE LET e == Head(d)
         IN (IF e.isdict
             THEN [i \in 1..Len(e.sub) |->
                     [key |-> FlatKey(e.key, e.sub[i].key), val |-> e.sub[i].val]]
             ELSE <<[key |-> e.key, val |-> e.val]>>)
            \o Flatten(Tail(d))

KeySeq(d) == [i \in 1..Len(d) |-> d[i].key]
ValueOf(d, k) ==
    IF \E i \in DOMAIN d : d[i].key = k
    THEN d[CHOOSE i \in DOMAIN d : d[i].key = k].val
    ELSE <<>>

\* csv.DictWriter: a row holding a key that is no fieldname raises
\* ValueError; a missing key is written as the empty string.
RowRaises(header, flat) == \E i \in DOMAIN flat : flat[i].key \notin Range(header)
CsvRow(header, flat) == [i \in 1..Len(header) |-> ValueOf(flat, header[i])]

\* writer.writerows(flat_identities): the rows before the first one that raises
RECURSIVE CsvRows(_, _)
CsvRows(header, flats) ==
    IF flats = <<>> \/ RowRaises(header, Head(flats)) THEN <<>>
    ELSE <<CsvRow(header, Head(flats))>> \o CsvRows(header, Tail(flats))

\* if encrypt_password: (reached for json and yaml only)
Encrypts(fmt, pw) == fmt # "csv" /\ Truthy(pw)

\* save_identity(identities, output_format, encrypt_password): the file it
\* leaves in data/ and whether it raised. No test on encrypt_password comes
\* before the csv branch.
save_identity(ids, fmt, pw) ==
    IF fmt = "csv"
    THEN LET flats == [i \in 1..Len(ids) |-> Flatten(ids[i])]
             header == IF flats = <<>> THEN <<>> ELSE KeySeq(flats[1])
             rows == CsvRows(header, flats)
         IN [raised |-> flats = <<>> \/ Len(rows) < Len(flats),
             file |-> [format |-> "csv", encrypted |-> FALSE,
                       header |-> header, rows |-> rows, data |-> <<>>]]
    ELSE [raised |-> FALSE,
          file |-> [format |-> fmt, encrypted |-> Encrypts(fmt, pw),
                    header |-> <<>>, rows |-> <<>>, data |-> ids]]

\* ------------------------------------------------ generate_batch_identities
AddressFields == {"address_street", "address_city", "address_state", "address_country"}
\* field.split('_')[1]
SubkeyOf(field) ==
    CASE field = "address_street" -> "street"
      [] field = "address_city" -> "city"
      [] field = "address_state" -> "state"
      [] field = "address_country" -> "country"
      [] OTHER -> field

\* The filtered_identity of one identity for a non-empty field list.
RECURSIVE Project(_, _)
Project(d, fields) ==
    IF fields = <<>> THEN <<>>
    ELSE LET f == Head(fields)
             rest == Project(d, Tail(fields))
             item ==
               IF HasKey(d, f) THEN <<Field(d, f)>>
               ELSE IF f \in AddressFields /\ HasKey(d, "address")
                       /\ Field(d, "address").isdict
                       /\ HasKey(Field(d, "address").sub, SubkeyOf(f))
                    THEN <<FStr(f, Field(Field(d, "address").sub, SubkeyOf(f)).val)>>
                    ELSE <<>>
         IN item \o SelectSeq(rest, LAMBDA e : item = <<>> \/ e.key # f)

NoBatchArgs ==
    [count |-> 1, country |-> "US", gender |-> "any", save |-> FALSE, fields |-> <<>>,
     output_format |-> "json", min_age |-> 18, max_age |-> 65,
     use_temp_email |-> FALSE, manual_email |-> PNone, encrypt_password |-> PNone]

OutsideBatch == <<ConfigVars, InboxVars, ShellVars, FieldVars>>

\* for _ in range(count): identity = self.generate_identity(...); after the
\* loop, if save: self.save_identity(...); return identities
BatchLoop ==
    /\ bpc = "loop"
    /\ IF Len(identities) < bargs.count
       THEN /\ bpc' = "wait"
            /\ ipc' = "call"
            /\ iargs' = [country |-> bargs.country, gender |-> bargs.gender,
                         use_temp_email |-> bargs.use_temp_email,
                         manual_email |-> bargs.manual_email,
                         min_age |-> bargs.min_age, max_age |-> bargs.max_age]
            /\ ivals' = NoVals
            /\ identity' = <<>>
       ELSE /\ bpc' = IF bargs.save THEN "save" ELSE "done"
            /\ UNCHANGED IdentityVars
    /\ UNCHANGED <<bargs, identities, disk, TempVars, OutsideBatch>>

\* generate_identity has returned or raised: project, append
BatchCollect ==
    /\ bpc = "wait"
    /\ ipc \in {"done", "raised"}
    /\ IF ipc = "raised"
       THEN bpc' = "raised" /\ UNCHANGED identities
       ELSE /\ bpc' = "loop"
            /\ identities' = Append(identities,
                 IF bargs.fields # <<>> THEN Project(identity, bargs.fields) ELSE identity)
    /\ ipc' = "idle"
    /\ UNCHANGED <<bargs, iargs, ivals, identity, disk, TempVars, OutsideBatch>>

\* self.save_identity(identities, output_format, encrypt_password)
SaveIdentity ==
    /\ bpc = "save"
    /\ LET out == save_identity(identities, bargs.output_format, bargs.encrypt_password)
       IN /\ disk' = Append(disk, out.file)
          /\ bpc' = IF out.raised THEN "raised" ELSE "done"
    /\ UNCHANGED <<bargs, identities, IdentityVars, TempVars, OutsideBatch>>

\* ------------------------------------------------------ main(): arguments
\* int(token) for the number tokens of the model; any other token is no
\* number (argparse exits on it).
IntTable ==
    ("0" :> 0) @@ ("1" :> 1) @@ ("2" :> 2) @@ ("3" :> 3) @@ ("-1" :> -1)
    @@ ("17" :> 17) @@ ("18" :> 18) @@ ("65" :> 65) @@ ("120" :> 120) @@ ("121" :> 121)
IsInt(t) == t \in DOMAIN IntTable
IntOf(t) == IntTable[t]

\* A token argparse reads as an option: it starts with "-" and is no
\* negative number.
OptionTokens ==
    {"--save", "--save-log", "--country", "--gender", "--format", "--count", "--fields",
     "--no-preview", "--min-age", "--max-age", "--use-temp-email", "--manual-email",
     "--encrypt", "--code-pattern", "--link-pattern", "--poll-attempts",
     "--poll-interval", "--bogus", "-h"}
IsOption(t) == t \in OptionTokens

all_valid ==
    {"first_name", "last_name", "full_name", "email", "phone", "address", "username",
     "birthdate", "password", "created", "email_token", "address_street",
     "address_city", "address_state", "address_country"}

GenerateDefaults ==
    [error |-> FALSE, save |-> FALSE, save_log |-> FALSE, country |-> "US",
     gender |-> "any", format |-> "json", count |-> 1, fields |-> <<>>,
     no_preview |-> FALSE, min_age |-> 18, max_age |-> 65, use_temp_email |-> FALSE,
     manual_email |-> PNone, encrypt |-> PNone]

StoreTrueFlags == {"--save", "--save-log", "--no-preview", "--use-temp-email"}
IntFlags == {"--count", "--min-age", "--max-age"}
StrFlags == {"--country", "--manual-email", "--encrypt"}
ChoiceFlags == {"--gender", "--format"}
ChoicesOf(flag) ==
    IF flag = "--gender" THEN {"male", "female", "neutral", "any"}
    ELSE {"json", "csv", "yaml"}

\* The leading tokens of toks that are no options (nargs="+").
RECURSIVE TakeValues(_)
TakeValues(toks) ==
    IF toks = <<>> \/ IsOption(Head(toks)) THEN <<>>
    ELSE <<Head(toks)>> \o TakeValues(Tail(toks))

Drop(toks, n) == SubSeq(toks, n + 1, Len(toks))

SetFlag(acc, flag, v) ==
    CASE flag = "--save" -> [acc EXCEPT !.save = TRUE]
      [] flag = "--save-log" -> [acc EXCEPT !.save_log = TRUE]
      [] flag = "--no-preview" -> [acc EXCEPT !.no_preview = TRUE]
      [] flag = "--use-temp-email" -> [acc EXCEPT !.use_temp_email = TRUE]
      [] flag = "--count" -> [acc EXCEPT !.count = IntOf(v)]
      [] flag = "--min-age" -> [acc EXCEPT !.min_age = IntOf(v)]
      [] flag = "--max-age" -> [acc EXCEPT !.max_age = IntOf(v)]
      [] flag = "--country" -> [acc EXCEPT !.country = v]
      [] flag = "--manual-email" -> [acc EXCEPT !.manual_email = Some(<<v>>)]
      [] flag = "--encrypt" -> [acc EXCEPT !.encrypt = Some(<<v>>)]
      [] flag = "--gender" -> [acc EXCEPT !.gender = v]
      [] flag = "--format" -> [acc EXCEPT !.format = v]

\* parser.parse_args(args_list[1:]) of the generate parser; error stands
\* for SystemExit.
RECURSIVE ParseGenerate(_, _)
ParseGenerate(toks, acc) ==
    IF toks = <<>> THEN acc
    ELSE LET t == Head(toks)
             err == [acc EXCEPT !.error = TRUE]
         IN IF t \in StoreTrueFlags THEN ParseGenerate(Tail(toks), SetFlag(acc, t, t))
            ELSE IF t \in IntFlags \cup StrFlags \cup ChoiceFlags
            THEN IF Len(toks) < 2 \/ IsOption(toks[2]) THEN err
                 ELSE IF t \in IntFlags /\ ~IsInt(toks[2]) THEN err
                 ELSE IF t \in ChoiceFlags /\ toks[2] \notin ChoicesOf(t) THEN err
                 ELSE ParseGenerate(Drop(toks, 2), SetFlag(acc, t, toks[2]))
            ELSE IF t = "--fields"
            THEN LET vals == TakeValues(Tail(toks))
                 IN IF vals = <<>> THEN err
                    ELSE ParseGenerate(Drop(toks, 1 + Len(vals)), [acc EXCEPT !.fields = vals])
            ELSE err

InboxDefaults ==
    [error |-> FALSE, positionals |-> <<>>, code_pattern |-> DefaultCodePattern,
     link_pattern |-> DefaultLinkPattern, poll_attempts |-> 5, poll_interval |-> 2]

\* parser.parse_args(args_list[1:]) of the check-inbox parser, before the
\* test that exactly one positional (the token) was given.
RECURSIVE ParseInboxFlags(_, _)
ParseInboxFlags(toks, acc) ==
    IF toks = <<>> THEN acc
    ELSE LET t == Head(toks)
             err == [acc EXCEPT !.error = TRUE]
             valued == {"--code-pattern", "--link-pattern", "--poll-attempts", "--poll-interval"}
         IN IF t \in valued
            THEN IF Len(toks) < 2 \/ IsOption(toks[2]) THEN err
                 ELSE IF t \in {"--poll-attempts", "--poll-interval"} /\ ~IsInt(toks[2]) THEN err
                 ELSE ParseInboxFlags(Drop(toks, 2),
                        CASE t = "--code-pattern" -> [acc EXCEPT !.code_pattern = toks[2]]
                          [] t = "--link-pattern" -> [acc EXCEPT !.link_pattern = toks[2]]
                          [] t = "--poll-attempts" -> [acc EXCEPT !.poll_attempts = IntOf(toks[2])]
                          [] t = "--poll-interval" -> [acc EXCEPT !.poll_interval = IntOf(toks[2])])
            ELSE IF IsOption(t) THEN err
            ELSE ParseInboxFlags(Tail(toks), [acc EXCEPT !.positionals = Append(@, t)])

ParseInbox(toks) ==
    LET a == ParseInboxFlags(toks, InboxDefaults)
    IN IF Len(a.positionals) # 1 THEN [a EXCEPT !.error = TRUE] ELSE a

\* ----------------------------------------------------- main(): messages
Msg(kind, text) == [kind |-> kind, text |-> text]
NoOutput == Msg("none", <<>>)
ErrorMsg(text) == Msg("error", <<text>>)

\* ---------------------------------------------- main(): generate command
CountAcceptsZero(a) == a.count < 0
\* if args.count < 1
CountInvalid(a) == a.count < 1

\* if args.min_age < 0 or args.max_age < args.min_age or args.max_age > 120
AgeInvalid(a) == a.min_age < 0 \/ a.max_age < a.min_age \/ a.max_age > 120

\* if args.use_temp_email and args.manual_email
ExclusiveInvalid(a) == a.use_temp_email /\ Truthy(a.manual_email)

\* if args.encrypt and args.format == "csv"
CsvEncryptInvalid(a) == Truthy(a.encrypt) /\ a.format = "csv"

\* The message of the first failing test of the generate branch, or
\* NoOutput when the command is accepted.
GenerateDiagnostic(a) ==
    CASE a.error -> ErrorMsg("Error: Invalid arguments.")
      [] CountInvalid(a) -> ErrorMsg("Error: Count must be positive")
      [] AgeInvalid(a) -> ErrorMsg("Error: Invalid age range")
      [] ExclusiveInvalid(a) ->
           ErrorMsg("Error: Cannot use both --use-temp-email and --manual-email")
      [] CsvEncryptInvalid(a) ->
           ErrorMsg("Error: Encryption is not supported for CSV format")
      [] OTHER -> NoOutput

\* if args.fields and not all(field in all_valid ...): args.fields = None
CheckedFields(a) == IF Range(a.fields) \subseteq all_valid THEN a.fields ELSE <<>>

BatchArgsOf(a) ==
    [count |-> a.count, country |-> a.country, gender |-> a.gender, save |-> a.save,
     fields |-> CheckedFields(a), output_format |-> a.format, min_age |-> a.min_age,
     max_age |-> a.max_age, use_temp_email |-> a.use_temp_email,
     manual_email |-> a.manual_email, encrypt_password |-> a.encrypt]

\* The files a generate command may write: one export, one log per identity.
WritesOf(a) == (IF a.save THEN 1 ELSE 0) + (IF a.save_log /\ a.count > 0 THEN a.count ELSE 0)

\* ------------------------------------------- main(): check-inbox command
PollIntervalAcceptsZero(a) == a.poll_interval < 0
\* if args.poll_interval <= 0
PollIntervalInvalid(a) == a.poll_interval <= 0

\* if args.poll_attempts < 1
PollAttemptsInvalid(a) == a.poll_attempts < 1

InboxDiagnostic(a) ==
    CASE a.error -> ErrorMsg("Error: Invalid arguments.")
      [] PollAttemptsInvalid(a) -> ErrorMsg("Error: Poll attempts must be positive")
      [] PollIntervalInvalid(a) -> ErrorMsg("Error: Poll interval must be positive")
      [] OTHER -> NoOutput

InboxArgsOf(a) ==
    [token |-> <<a.positionals[1]>>, code_pattern |-> a.code_pattern,
     link_pattern |-> a.link_pattern, poll_attempts |-> a.poll_attempts,
     poll_interval |-> a.poll_interval]

\* What the inbox can hold when a check-inbox command runs.
ShellMailboxes ==
    { <<>>,
      << <<"123456", "http://a.test/x">> >>,
      << <<"hello">>, <<"visit", "http://a.test/x">> >> }

\* ----------------------------------------------------------- main(): loop
\* args_list[0].lower()
VerbLower(t) == IF t = "STOP" THEN "stop" ELSE t

\* The command lines typed at the prompt, already split.
GenerateLines ==
    { <<"generate">>,
      <<"generate", "--count", "2", "--country", "US", "--gender", "male",
        "--format", "json", "--save">>,
      <<"generate", "--use-temp-email">>,
      <<"generate", "--use-temp-email", "--count", "2", "--format", "csv">>,
      <<"generate", "--manual-email", "me@host.test", "--save-log">>,
      <<"generate", "--fields", "email", "address_city", "--format", "csv", "--save">>,
      <<"generate", "--fields", "nickname", "--country", "zz">>,
      <<"generate", "--encrypt", "pw", "--format", "yaml", "--save", "--no-preview">>,
      <<"generate", "--count", "0">>,
      <<"generate", "--count", "-1", "--save">>,
      <<"generate", "--min-age", "-1">>,
      <<"generate", "--min-age", "65", "--max-age", "18">>,
      <<"generate", "--max-age", "121", "--save-log">>,
      <<"generate", "--use-temp-email", "--manual-email", "me@host.test">>,
      <<"generate", "--encrypt", "pw", "--format", "csv", "--save">>,
      <<"generate", "--format", "csv", "--encrypt", "pw">>,
      <<"generate", "--bogus">>,
      <<"generate", "--count", "abc">>,
      <<"generate", "--gender", "robot">>,
      <<"generate", "--format", "xml", "--save">>,
      <<"generate", "--count">>,
      <<"generate", "--fields">>,
      <<"generate", "-h">>,
      <<"generate", "extra">> }

InboxLines ==
    { <<"check-inbox", "tokA", "--poll-attempts", "2", "--poll-interval", "0">>,
      <<"check-inbox", "tokA", "--poll-attempts", "2", "--poll-interval", "1">>,
      <<"check-inbox", "tokA", "--code-pattern", "hello", "--poll-attempts", "1">>,
      <<"check-inbox", "tokA", "--poll-attempts", "0">>,
      <<"check-inbox", "tokA", "--poll-attempts", "abc">>,
      <<"check-inbox", "tokA", "--poll-interval", "-1">>,
      <<"check-inbox">>,
      <<"check-inbox", "tokA", "tokB">> }

CommandLines ==
    { <<>>, <<"stop">>, <<"STOP">>, <<"clean">>, <<"frobnicate">>, <<"stop", "now">> }
    \cup GenerateLines \cup InboxLines

\* generator = TemporaryIdentityGenerator(): an exception of __init__ ends
\* the program before the loop.
Construct ==
    /\ spc = "start"
    /\ LET c == LoadConfig(files)
       IN /\ tables' = c.tables
          /\ warnings' = c.warned
          /\ spc' = IF c.raised THEN "crashed" ELSE "prompt"
    /\ UNCHANGED <<files, cmd, output, TempVars, IdentityVars, InboxVars, BatchVars, FieldVars, disk>>

\* The locals of the previous iteration are rebound: nothing is under way.
NothingUnderWay ==
    /\ tpc' = "idle"
    /\ attempt' = 0
    /\ sleeps' = <<>>
    /\ temail' = <<>>
    /\ tresult' = NoMailbox
    /\ ipc' = "idle"
    /\ iargs' = [country |-> "US", gender |-> "any", use_temp_email |-> FALSE,
                 manual_email |-> PNone, min_age |-> 18, max_age |-> 65]
    /\ ivals' = NoVals
    /\ identity' = <<>>

NoBatch ==
    /\ bpc' = "idle"
    /\ bargs' = NoBatchArgs
    /\ identities' = <<>>

NoInbox ==
    /\ cpc' = "idle"
    /\ cargs' = [token |-> <<>>, code_pattern |-> DefaultCodePattern,
                 link_pattern |-> DefaultLinkPattern, poll_attempts |-> 5,
                 poll_interval |-> 2]
    /\ cloop' = NoLoop
    /\ cstats' = NoStats
    /\ cresult' = NothingFound

\* One reading of the prompt: input(), split, and the dispatch on the verb
\* up to the call of generate_batch_identities or check_inbox. The inbox a
\* check-inbox command meets is the provider's at that moment.
ReadCommand ==
    /\ spc = "prompt"
    /\ NothingUnderWay
    /\ \E line \in CommandLines :
         /\ cmd' = line
         /\ IF line # <<>> /\ VerbLower(line[1]) = "check-inbox"
            THEN mailbox' \in ShellMailboxes
            ELSE mailbox' = <<>>
         /\ IF line = <<>>
            THEN NoBatch /\ NoInbox /\ UNCHANGED <<spc, output>>
            ELSE IF VerbLower(line[1]) = "stop"
            THEN /\ spc' = "stopped"
                 /\ output' = Msg("exit", <<"Exiting program.">>)
                 /\ NoBatch /\ NoInbox
            ELSE IF VerbLower(line[1]) = "clean"
            THEN /\ output' = Msg("banner", <<>>)
                 /\ NoBatch /\ NoInbox /\ UNCHANGED spc
            ELSE IF VerbLower(line[1]) = "generate"
            THEN LET a == ParseGenerate(Tail(line), GenerateDefaults)
                     d == GenerateDiagnostic(a)
                 IN IF d # NoOutput
                    THEN output' = d /\ NoBatch /\ NoInbox /\ UNCHANGED spc
                    ELSE /\ Len(disk) + WritesOf(a) <= MaxFiles
                         /\ spc' = "generate"
                         /\ bpc' = "loop"
                         /\ bargs' = BatchArgsOf(a)
                         /\ identities' = <<>>
                         /\ output' = IF CheckedFields(a) # a.fields
                                      THEN Msg("warning", <<"Warning: Invalid fields specified.">>)
                                      ELSE NoOutput
                         /\ NoInbox
            ELSE IF VerbLower(line[1]) = "check-inbox"
            THEN LET a == ParseInbox(Tail(line))
                     d == InboxDiagnostic(a)
                 IN IF d # NoOutput
                    THEN output' = d /\ NoBatch /\ NoInbox /\ UNCHANGED spc
                    ELSE /\ spc' = "inbox"
                         /\ InboxCall(InboxArgsOf(a))
                         /\ output' = NoOutput
                         /\ NoBatch
            ELSE /\ output' = Msg("unknown", <<line[1]>>)
                 /\ NoBatch /\ NoInbox /\ UNCHANGED spc
    /\ UNCHANGED <<ConfigVars, FieldVars, disk>>

LogFile(id) ==
    [format |-> "log", encrypted |-> FALSE, header |-> <<>>, rows |-> <<>>, data |-> <<id>>]

ExceptionEscapes ==
    /\ spc' = "crashed"
    /\ output' = NoOutput
\* except Exception as e: print(f"Error: {e}")
ExceptionCaught ==
    /\ spc' = "prompt"
    /\ output' = ErrorMsg("Error: exception")

\* generate_batch_identities has returned or raised: the displays, the
\* logs of --save-log, and back to the prompt.
GenerateReturn ==
    /\ spc = "generate"
    /\ bpc \in {"done", "raised"}
    /\ IF bpc = "raised"
       THEN ExceptionCaught /\ UNCHANGED disk
       ELSE /\ spc' = "prompt"
            /\ output' = Msg("identities", <<>>)
            /\ disk' = IF ParseGenerate(Tail(cmd), GenerateDefaults).save_log
                       THEN disk \o [i \in 1..Len(identities) |-> LogFile(identities[i])]
                       ELSE disk
    /\ UNCHANGED <<cmd, ConfigVars, InboxVars, BatchVars, IdentityVars, TempVars, FieldVars>>

\* if code: ... elif link: ... else: ...
InboxMessage(r) ==
    IF Truthy(r.code) THEN Msg("code", r.code.s)
    ELSE IF Truthy(r.link) THEN Msg("link", r.link.s)
    ELSE Msg("notfound", <<>>)

\* check_inbox has returned: the result is printed, back to the prompt.
InboxReturn ==
    /\ spc = "inbox"
    /\ cpc = "done"
    /\ spc' = "prompt"
    /\ output' = InboxMessage(cresult)
    /\ UNCHANGED <<cmd, ConfigVars, InboxVars, TempVars, IdentityVars, BatchVars, FieldVars, disk>>


\* ------------------------------------- direct calls of the field generators
FieldIdle ==
    /\ fpc = "idle"
    /\ fargs = [fn |-> "name", country |-> "US", gender |-> "any", seed |-> 0]
    /\ fout = <<>>

OutsideField ==
    <<ConfigVars, TempVars, IdentityVars, InboxVars, BatchVars, ShellVars, disk>>

\* first_name, last_name = generator.generate_name(gender, country)
GenerateName ==
    /\ fpc = "call"
    /\ fargs.fn = "name"
    /\ LET n == generate_name(tables, fargs.gender, fargs.country, fargs.seed)
       IN IF n.raised
          THEN fpc' = "raised" /\ UNCHANGED fout
          ELSE fpc' = "returned" /\ fout' = <<n.first, n.last>>
    /\ UNCHANGED <<fargs, OutsideField>>

\* phone = generator.generate_phone(country)
GeneratePhone ==
    /\ fpc = "call"
    /\ fargs.fn = "phone"
    /\ IF PhoneRaises(tables, fargs.country)
       THEN fpc' = "raised" /\ UNCHANGED fout
       ELSE fpc' = "returned" /\ fout' = generate_phone(tables, fargs.country, fargs.seed)
    /\ UNCHANGED <<fargs, OutsideField>>

\* address = generator.generate_address(country)
GenerateAddress ==
    /\ fpc = "call"
    /\ fargs.fn = "address"
    /\ IF AddressRaises(tables, fargs.country, fargs.seed)
       THEN fpc' = "raised" /\ UNCHANGED fout
       ELSE fpc' = "returned" /\ fout' = generate_address(tables, fargs.country, fargs.seed)
    /\ UNCHANGED <<fargs, OutsideField>>
\* ------------------------------------------------------------ idle states
NoInboxArgs ==
    [token |-> <<>>, code_pattern |-> DefaultCodePattern, link_pattern |-> DefaultLinkPattern,
     poll_attempts |-> 5, poll_interval |-> 2]
NoIdentityArgs ==
    [country |-> "US", gender |-> "any", use_temp_email |-> FALSE,
     manual_email |-> PNone, min_age |-> 18, max_age |-> 65]

TempIdle ==
    /\ tpc = "idle"
    /\ attempt = 0
    /\ sleeps = <<>>
    /\ temail = <<>>
    /\ tresult = NoMailbox

IdentityIdle ==
    /\ ipc = "idle"
    /\ iargs = NoIdentityArgs
    /\ ivals = NoVals
    /\ identity = <<>>

BatchIdle ==
    /\ bpc = "idle"
    /\ bargs = NoBatchArgs
    /\ identities = <<>>

\* A generator constructed from one of the configuration cases.
Constructed ==
    /\ files \in ConfigCases
    /\ tables = LoadConfig(files).tables
    /\ warnings = LoadConfig(files).warned

\* The generator is called directly, not by main().
NoShell ==
    /\ spc = "api"
    /\ cmd = <<>>
    /\ output = NoOutput

\* -------------------------------------------- one call of generate_identity
IdentityArgs ==
    [country : {"US", "in", "zz"}, gender : {"any", "male"}, use_temp_email : BOOLEAN,
     manual_email : {PNone, Some(<<"me", "@", "host.test">>)}, min_age : {18}, max_age : {18, 65}]

vars == <<ConfigVars, TempVars, IdentityVars, InboxVars, BatchVars, ShellVars, FieldVars, disk>>

InitIdentity ==
    /\ Constructed
    /\ NoShell
    /\ TempIdle
    /\ ipc = "call"
    /\ iargs \in IdentityArgs
    /\ ivals = NoVals
    /\ identity = <<>>
    /\ mailbox = <<>>
    /\ cargs = NoInboxArgs
    /\ InboxIdle
    /\ BatchIdle
    /\ disk = <<>>
    /\ FieldIdle

NextIdentity ==
    \/ IdentityBegin
    \/ TempListDomains
    \/ TempCreateAccount
    \/ TempGetToken
    \/ TempSleep
    \/ IdentityAfterTemp
    \/ IdentityAssemble

SpecIdentity == InitIdentity /\ [][NextIdentity]_vars

\* ------------------------------------------------- one call of check_inbox
InitInbox ==
    /\ Constructed
    /\ files = NoFiles
    /\ NoShell
    /\ TempIdle
    /\ IdentityIdle
    /\ BatchIdle
    /\ disk = <<>>
    /\ FieldIdle
    /\ mailbox \in Mailboxes
    /\ \E a \in InboxArgs :
         /\ cargs = a
         /\ cloop = NoLoop
         /\ cstats = NoStats
         /\ cresult = NothingFound
         /\ cpc = IF a.poll_attempts > 0 THEN "list" ELSE "done"

NextInbox ==
    \/ InboxList
    \/ InboxFetch
    \/ InboxSleep

SpecInbox == InitInbox /\ [][NextInbox]_vars

\* ------------------ calls of generate_batch_identities and of save_identity
Passwords == {PNone, Some(<<"pw">>)}
BatchArgs ==
    [count : 0..MaxCount, country : {"US"}, gender : {"male"}, save : BOOLEAN,
     fields : {<<>>, <<"email", "address_city">>}, output_format : {"json", "csv", "yaml"},
     min_age : {18}, max_age : {65}, use_temp_email : BOOLEAN,
     manual_email : {PNone}, encrypt_password : Passwords]

SampleVals(tok) ==
    [first |-> "John", last |-> "Smith",
     email |-> <<"john", ".", "smith", "7", "@", "example.com">>, token |-> tok,
     seed |-> 0]
SampleIdentity(tok) == MakeIdentity(Defaults, NoIdentityArgs, SampleVals(tok))
SampleBatches ==
    UNION {[1..n -> {SampleIdentity(PNone), SampleIdentity(Some(<<"tokA">>))}] : n \in 1..MaxCount}

\* Either generate_batch_identities(...) or save_identity(...) is called.
InitSave ==
    /\ Constructed
    /\ files = NoFiles
    /\ NoShell
    /\ TempIdle
    /\ IdentityIdle
    /\ mailbox = <<>>
    /\ cargs = NoInboxArgs
    /\ InboxIdle
    /\ disk = <<>>
    /\ FieldIdle
    /\ \/ bpc = "loop" /\ bargs \in BatchArgs /\ identities = <<>>
       \/ /\ bpc = "save"
          /\ identities \in SampleBatches
          /\ \E f \in {"json", "csv", "yaml"}, pw \in Passwords :
               bargs = [NoBatchArgs EXCEPT !.save = TRUE, !.output_format = f,
                                           !.encrypt_password = pw]

NextSave ==
    \/ BatchLoop
    \/ BatchCollect
    \/ SaveIdentity
    \/ IdentityBegin
    \/ TempListDomains
    \/ TempCreateAccount
    \/ TempGetToken
    \/ TempSleep
    \/ IdentityAfterTemp
    \/ IdentityAssemble

SpecSave == InitSave /\ [][NextSave]_vars

\* -------------------------------------------------- construction by itself
\* What config/<t>.json can be when the program starts.
FileCases(t) ==
    {Absent, BadJson, Present(GoodFile(t)), Present(BadShapeFile(t))}
    \cup (IF t = "first_names" THEN {Present(JTopNum)} ELSE {})

ConfigDirs ==
    { [first_names |-> f1, last_names |-> f2, domains |-> f3,
       streets |-> f4, addresses |-> f5, phone_formats |-> f6] :
        f1 \in FileCases("first_names"), f2 \in FileCases("last_names"),
        f3 \in FileCases("domains"), f4 \in FileCases("streets"),
        f5 \in FileCases("addresses"), f6 \in FileCases("phone_formats") }

InitConfig ==
    /\ files \in ConfigDirs
    /\ tables = Defaults
    /\ warnings = {}
    /\ spc = "start"
    /\ cmd = <<>>
    /\ output = NoOutput
    /\ TempIdle
    /\ IdentityIdle
    /\ mailbox = <<>>
    /\ cargs = NoInboxArgs
    /\ InboxIdle
    /\ BatchIdle
    /\ disk = <<>>
    /\ FieldIdle

SpecConfig == InitConfig /\ [][Construct]_vars

\* ------------------------------------- direct calls of the field generators
\* A decodable file that passes the shape test of its table and lacks the
\* key the generators use as their default (or holds an empty list).
SparseFile(t) ==
    CASE t = "first_names" ->
           JDict(("male" :> JList(<<>>)) @@ ("female" :> JList(<<"Anna">>))
                 @@ ("neutral" :> JList(<<"Sam">>)))
      [] t = "last_names" -> JDict("it" :> JList(<<"Rossi">>))
      [] t = "domains" -> JTopList(<<>>)
      [] t = "streets" -> JDict("it" :> JList(<<"Via Roma">>))
      [] t = "addresses" -> JDict("NY" :> JList(<<"Buffalo">>))
      [] t = "phone_formats" -> JDict("in" :> JStr(<<"9", "1", "-", "#">>))

FieldConfigs ==
    {NoFiles, AllGoodFiles}
    \cup {[AllGoodFiles EXCEPT ![t] = Present(SparseFile(t))] : t \in Tables}
    \cup {[AllGoodFiles EXCEPT ![t] = Present(BadShapeFile(t))] : t \in Tables}

InitFields ==
    /\ files \in FieldConfigs
    /\ tables = LoadConfig(files).tables
    /\ warnings = LoadConfig(files).warned
    /\ NoShell
    /\ TempIdle
    /\ IdentityIdle
    /\ mailbox = <<>>
    /\ cargs = NoInboxArgs
    /\ InboxIdle
    /\ BatchIdle
    /\ disk = <<>>
    /\ fpc = "call"
    /\ fargs \in [fn : {"name", "phone", "address"},
                 country : {"US", "in", "it", "zz"},
                 gender : {"any", "male", "neutral", "MALE", "robot", ""},
                 seed : 0..MaxRand]
    /\ fout = <<>>

NextFields ==
    \/ GenerateName
    \/ GeneratePhone
    \/ GenerateAddress

SpecFields == InitFields /\ [][NextFields]_vars

\* ------------------------------------------------------ the whole program
ShellConfigCases ==
    {NoFiles, AllGoodFiles, EmptyDomainsFiles,
     [NoFiles EXCEPT !["first_names"] = Present(JTopNum)]}

\* main() is about to construct the generator.
Init ==
    /\ files \in ShellConfigCases
    /\ tables = Defaults
    /\ warnings = {}
    /\ spc = "start"
    /\ cmd = <<>>
    /\ output = NoOutput
    /\ TempIdle
    /\ IdentityIdle
    /\ mailbox = <<>>
    /\ cargs = NoInboxArgs
    /\ InboxIdle
    /\ BatchIdle
    /\ disk = <<>>
    /\ FieldIdle

Next ==
    \/ Construct
    \/ ReadCommand
    \/ GenerateReturn
    \/ InboxReturn
    \/ BatchLoop
    \/ BatchCollect
    \/ SaveIdentity
    \/ IdentityBegin
    \/ TempListDomains
    \/ TempCreateAccount
    \/ TempGetToken
    \/ TempSleep
    \/ IdentityAfterTemp
    \/ IdentityAssemble
    \/ InboxList
    \/ InboxFetch
    \/ InboxSleep

Spec == Init /\ [][Next]_vars

\* ------------------------------------------------------------------ claims
\* C1: generate_temp_email makes at most 3 attempts, and the no-mailbox
\* result (None, None) is returned only once all 3 attempts have been made
\* and have failed.
C1_NoMailboxOnlyAfterThreeAttempts ==
    /\ attempt < retries
    /\ (tpc = "done" /\ tresult = NoMailbox) => attempt + 1 = retries

\* C2: when attempt k of generate_temp_email is under way or has ended, the
\* sleeps made so far are exactly 2^0, ..., 2^(k-1): a sleep of 2^k seconds
\* separates the failed attempt k from attempt k+1, and nothing is slept
\* after the final attempt or after a successful one.
C2_BackoffSchedule ==
    /\ Len(sleeps) = attempt
    /\ \A i \in 1..Len(sleeps) : sleeps[i] = 2 ^ (i - 1)
    /\ tpc = "sleep" => attempt \in {0, 1}
    /\ Len(sleeps) <= retries - 1

\* C2 witness: all three attempts failed, 1s and 2s were slept, and no
\* sleep followed the final attempt.
C2_Witness ==
    /\ tpc = "done"
    /\ tresult = NoMailbox
    /\ attempt = 2
    /\ sleeps = <<1, 2>>

\* Provisioning was called by generate_identity, failed on all attempts and
\* returned (None, None).
ProvisioningFailed ==
    /\ iargs.use_temp_email
    /\ attempt + 1 = retries
    /\ ~Truthy(iargs.manual_email)
    /\ ivals.first # None
    /\ ipc \in {"assemble", "done", "raised"}
    /\ tpc = "idle"
    /\ tresult = NoMailbox

HasAt(email) == \E i \in DOMAIN email : email[i] = "@"
EndsWithConfiguredDomain(email) ==
    /\ tables["domains"].kind = "list"
    /\ Len(email) > 0
    /\ email[Len(email)] \in Range(tables["domains"].items)

\* C5: in mailbox mode, when provisioning returns (None, None), no error
\* reaches the caller and the record produced has a generated email with
\* '@' and a configured domain, and no email_token.
C5_FallbackEmail ==
    ProvisioningFailed =>
        /\ ipc # "raised"
        /\ HasAt(ivals.email)
        /\ EndsWithConfiguredDomain(ivals.email)
        /\ ivals.email[1] = Lower(ivals.first)
        /\ ipc = "done" => ~HasKey(identity, "email_token")

NoMatchIn(body) ==
    /\ ~Search(cargs.code_pattern, body).some
    /\ ~Search(cargs.link_pattern, body).some

\* C3: within one polling attempt the messages are examined in list order
\* and the first match is the result; in a message the code pattern is
\* tried before the link pattern, so a message matching both yields
\* (code, None) and (None, link) comes only from a message without a code
\* match.
C3_FirstMatchCodeFirst ==
    (cpc = "done" /\ cresult # NothingFound) =>
        LET body == cloop.msgs[cloop.idx]
        IN /\ cloop.msgs = mailbox
           /\ \A j \in 1..(cloop.idx - 1) : NoMatchIn(cloop.msgs[j])
           /\ Search(cargs.code_pattern, body).some =>
                cresult = [code |-> Search(cargs.code_pattern, body), link |-> PNone]
           /\ cresult.link.some =>
                /\ ~Search(cargs.code_pattern, body).some
                /\ ~cresult.code.some
                /\ cresult.link = Search(cargs.link_pattern, body)

\* C3 witness: the second message of the list matches both patterns, the
\* first one matched nothing, and the code was returned.
C3_Witness ==
    /\ cpc = "done"
    /\ cloop.idx = 2
    /\ Search(cargs.link_pattern, cloop.msgs[2]).some
    /\ cresult.code.some
    /\ ~cresult.link.some

\* C4: check_inbox never raises on a failed request; it makes at most
\* poll_attempts attempts; it returns (None, None) only after all
\* poll_attempts attempts, none of which found a match (so the inbox holds
\* no match if one of them met no network failure), and a match it returns
\* is in the inbox.
C4_PollingSurvivesFailures ==
    /\ cpc \in {"idle", "list", "fetch", "sleep", "done"}
    /\ cstats.lists <= (IF cargs.poll_attempts > 0 THEN cargs.poll_attempts ELSE 0)
    /\ cstats.failed <= cstats.lists
    /\ cpc = "done" =>
        IF cresult = NothingFound
        THEN /\ cstats.lists = (IF cargs.poll_attempts > 0 THEN cargs.poll_attempts ELSE 0)
             /\ cstats.failed < cstats.lists =>
                  \A i \in DOMAIN mailbox : NoMatchIn(mailbox[i])
        ELSE \E i \in DOMAIN mailbox : ~NoMatchIn(mailbox[i])

\* C4 witness: an attempt met a network failure and a later attempt of the
\* same call returned a match.
C4_Witness ==
    /\ cpc = "done"
    /\ cstats.failed >= 1
    /\ cresult # NothingFound

\* C6: a call of save_identity (made directly or by
\* generate_batch_identities with save enabled) with format csv and a
\* non-empty encryption password creates or writes no output file: the
\* output directory, empty before the call, stays empty.
C6_CsvEncryptionWritesNothing ==
    (bargs.output_format = "csv" /\ Truthy(bargs.encrypt_password)) => disk = <<>>

C7Line == <<"check-inbox", "tokA", "--poll-attempts", "2", "--poll-interval", "0">>
C7LinePositive == <<"check-inbox", "tokA", "--poll-attempts", "2", "--poll-interval", "1">>
\* one message whose body holds a 6-digit number and a URL
C7Mailbox == << <<"123456", "http://a.test/x">> >>

\* C7 (as stated): check-inbox <token> --poll-attempts 2 --poll-interval 0
\* against a mailbox with one message holding a 6-digit number and a URL
\* polls the inbox and returns the 6-digit code.
C7_ZeroIntervalReturnsCode ==
    (spc = "prompt" /\ cmd = C7Line /\ mailbox = C7Mailbox) =>
        output = Msg("code", <<"123456">>)

\* C7 (amended): with --poll-interval 0 the command is rejected with the
\* poll-interval diagnostic and check_inbox is never called; with a
\* positive interval, against that mailbox, the command never returns the
\* URL: it returns the 6-digit code unless both attempts met a network
\* failure.
C7_PositiveIntervalReturnsCode ==
    /\ cmd = C7Line =>
         /\ spc = "prompt"
         /\ cpc = "idle"
         /\ output = ErrorMsg("Error: Poll interval must be positive")
    /\ (spc = "prompt" /\ cmd = C7LinePositive /\ mailbox = C7Mailbox) =>
         /\ output.kind # "link"
         /\ output # Msg("code", <<"123456">>) =>
              /\ output = Msg("notfound", <<>>)
              /\ cstats.failed = 2

\* C7 witness: the positive-interval command has returned the code.
C7_Witness ==
    /\ spc = "prompt"
    /\ cmd = C7LinePositive
    /\ mailbox = C7Mailbox
    /\ output = Msg("code", <<"123456">>)

LoopStates == {"prompt", "generate", "inbox"}

\* Command lines with malformed arguments or an unknown verb.
MalformedLines ==
    { <<"frobnicate">>, <<"generate", "--bogus">>, <<"generate", "--count", "abc">>,
      <<"generate", "--gender", "robot">>, <<"generate", "--count">>,
      <<"generate", "--fields">>, <<"generate", "extra">>, <<"check-inbox">>,
      <<"check-inbox", "tokA", "--poll-attempts", "abc">>,
      <<"check-inbox", "tokA", "tokB">>, <<"check-inbox", "tokA", "--poll-attempts", "0">> }

\* The step that reads a stop command at the prompt.
StopRead ==
    /\ spc = "prompt"
    /\ spc' = "stopped"
    /\ cmd' # <<>>
    /\ VerbLower(cmd'[1]) = "stop"

\* C8: the loop, once running, is left only by reading a stop command;
\* after a malformed command the loop is at the prompt with a message
\* printed, and an exception raised while a command executes is reported
\* and leads back to the prompt.
C8_LoopStopsOnlyOnStop ==
    /\ [](cmd \in MalformedLines =>
            spc = "prompt" /\ output.kind \in {"error", "unknown"})
    /\ [][(spc \in LoopStates) => (spc' \in LoopStates \/ StopRead)]_vars
    /\ [][(spc = "generate" /\ bpc = "raised") =>
            (spc' = "prompt" /\ output'.kind = "error")]_vars

\* C8 witness: the execution of a generate command raised, the error was
\* printed and the loop is at the prompt.
C8_Witness ==
    /\ spc = "prompt"
    /\ bpc = "raised"
    /\ output = ErrorMsg("Error: exception")

\* The generate commands with one of the user-input errors of the claim.
C9Lines ==
    { <<"generate", "--count", "0">>,
      <<"generate", "--count", "-1", "--save">>,
      <<"generate", "--min-age", "-1">>,
      <<"generate", "--min-age", "65", "--max-age", "18">>,
      <<"generate", "--max-age", "121", "--save-log">>,
      <<"generate", "--use-temp-email", "--manual-email", "me@host.test">>,
      <<"generate", "--encrypt", "pw", "--format", "csv", "--save">>,
      <<"generate", "--format", "csv", "--encrypt", "pw">>,
      <<"generate", "--bogus">>,
      <<"generate", "--count", "abc">>,
      <<"generate", "--gender", "robot">>,
      <<"generate", "--format", "xml", "--save">>,
      <<"generate", "--count">> }

\* C9: a generate command with a user-input error is rejected with a
\* diagnostic: reading it leaves the loop at the prompt, and no identity
\* has been generated, no mailbox request made and no file written.
C9_InvalidGenerateRejected ==
    /\ [](cmd \in C9Lines =>
            /\ spc = "prompt"
            /\ output.kind = "error"
            /\ bpc = "idle" /\ ipc = "idle" /\ tpc = "idle"
            /\ identities = <<>> /\ identity = <<>>)
    /\ [][(cmd' \in C9Lines) => disk' = disk]_vars

\* C9 witness: --encrypt with csv was rejected at the prompt.
C9_Witness ==
    /\ spc = "prompt"
    /\ cmd = <<"generate", "--encrypt", "pw", "--format", "csv", "--save">>
    /\ output = ErrorMsg("Error: Encryption is not supported for CSV format")

\* The file of table t is present, decodes and passes the shape test.
WellFormed(t) == files[t].status = "ok" /\ ShapeOk(t, files[t].content)

\* C10: once the generator is constructed, construction has not failed,
\* and each table, whatever the other five files are, holds its file's
\* contents if that file is present and well-formed and its built-in
\* default otherwise.
C10_TablesIndependent ==
    spc # "start" =>
        /\ spc # "crashed"
        /\ \A t \in Tables :
             tables[t] = IF WellFormed(t) THEN files[t].content ELSE DefaultTable(t)

\* C11: generate_name, generate_phone and generate_address never fail: a
\* call with any country and gender code, on any tables the generator holds
\* after startup, returns a value.
C11_FieldGeneratorsNeverFail == fpc # "raised"

\* The value generate_address returned under key k.
AddressPart(k) == fout[CHOOSE i \in DOMAIN fout : fout[i].key = k].val[1]

\* C12: the address generate_address returns has the requested country
\* (the default country when the requested one is unknown), a state of
\* that country's state list, and a city of the city list of exactly that
\* state.
C12_CityOfReturnedState ==
    (fpc = "returned" /\ fargs.fn = "address") =>
        LET c == AddressPart("country")
            st == AddressPart("state")
        IN /\ c = IF fargs.country \in DOMAIN state_maps THEN fargs.country ELSE "US"
           /\ st \in Range(state_maps[c])
           /\ st \in tables["addresses"].keys
           /\ AddressPart("city") \in Range(tables["addresses"].at[st].items)

\* C13: generate_temp_email never returns a provisioned address together
\* with a missing token: an attempt whose token response carries no token
\* is a failed attempt.
C13_AddressOnlyWithToken ==
    (tpc = "done" /\ tresult.email.some) => Truthy(tresult.token)

\* The key set of record d after flattening, as the claim words it: the
\* nested address becomes the four address_* columns, every other key stays.
FlattenedKeys(d) ==
    (Keys(d) \ {"address"}) \cup (IF HasKey(d, "address") THEN AddressFields ELSE {})

\* C14: after a non-empty batch was saved as csv, the header of the file
\* written is, as a set, the flattened key set of the first record.
C14_HeaderIsFirstRecordKeys ==
    (/\ bpc \in {"done", "raised"}
     /\ bargs.output_format = "csv"
     /\ identities # <<>>
     /\ disk # <<>>) =>
        Range(disk[Len(disk)].header) = FlattenedKeys(identities[1])

\* C14 witness: a batch of two full records, each with its nested
\* address, was saved as csv.
C14_Witness ==
    /\ bpc = "done"
    /\ bargs.output_format = "csv"
    /\ Len(identities) = 2
    /\ HasKey(identities[1], "address")
    /\ Len(disk) = 1
    /\ Len(disk[1].rows) = 2

\* The records of the batch do not all have the key set of the first one.
Heterogeneous == \E i \in DOMAIN identities : Keys(identities[i]) # Keys(identities[1])

\* The csv cell of record d under column h: the record's value under h
\* after flattening, the empty string when the record has no such key.
CellOf(d, h) ==
    LET flat == Flatten(d)
    IN IF \E i \in DOMAIN flat : flat[i].key = h
       THEN flat[CHOOSE i \in DOMAIN flat : flat[i].key = h].val
       ELSE <<>>

\* C15: the csv export of a batch whose records have different key sets
\* completes without error in either record order and writes one row per
\* record, each row holding under every column of the header the record's
\* value or, when the record has no such key, the empty string.
C15_HeterogeneousCsvCompletes ==
    (/\ bpc \in {"done", "raised"}
     /\ bargs.output_format = "csv"
     /\ disk # <<>>
     /\ Heterogeneous) =>
        LET f == disk[Len(disk)]
        IN /\ bpc = "done"
           /\ Len(f.rows) = Len(identities)
           /\ \A i \in DOMAIN f.rows : \A c \in DOMAIN f.header :
                f.rows[i][c] = CellOf(identities[i], f.header[c])

\* C16: a run of check_inbox that returns (None, None) has made exactly
\* poll_attempts message-list requests and exactly poll_attempts sleeps,
\* the last attempt's included; a run that returns a match in attempt k
\* has made k list requests and k-1 sleeps, none after the match. While
\* the call runs a sleep has followed every attempt that is over.
C16_SleepAfterEveryFailedAttempt ==
    /\ cpc \in {"list", "fetch", "sleep"} =>
         /\ cstats.lists \in {cloop.attempt, cloop.attempt + 1}
         /\ cstats.sleeps = cloop.attempt
    /\ cpc = "done" =>
         IF cresult = NothingFound
         THEN /\ cstats.lists = cargs.poll_attempts
              /\ cstats.sleeps = cargs.poll_attempts
         ELSE /\ cstats.lists = cloop.attempt + 1
              /\ cstats.sleeps = cloop.attempt

\* C16 witness: two attempts found nothing, two sleeps were made and the
\* call returned (None, None).
C16_Witness ==
    /\ cpc = "done"
    /\ cresult = NothingFound
    /\ cargs.poll_attempts = 2
    /\ cstats.lists = 2
    /\ cstats.sleeps = 2

====
